---- MODULE Spec2Model ----
(***************************************************************************)
(* A model of trueseeing's analysis context (trueseeing/context.py) and of *)
(* the search commands that consume it (trueseeing/app/cmd/android/        *)
(* search.py).                                                             *)
(*                                                                         *)
(* Strings are sequences of tokens.  A token is a TLA+ string standing for *)
(* one character or for one indivisible chunk of characters (".smali",     *)
(* "smali", "_classes2", ...); no token is a substring of another one, so  *)
(* a substring operation of the code is an operation on tokens.  A path is *)
(* the sequence of its segments, each segment a string.                    *)
(***************************************************************************)
EXTENDS Naturals, Sequences, FiniteSets, TLC

\* ------------------------------------------------------------ bounds
\* Number of hex digits of a digest (sha256's hexdigest has 64).
DigestLen == 6
\* Entries a match sequence yields at most.
MaxMatches == 2
\* Longest manifest-integrity content, in bytes, drawn for the pure functions.
MaxContentLen == 3
\* Public calls (analyze, store, disassembled_*) made on all contexts together.
MaxCalls == 4

\* ------------------------------------------------------------ strings
Min(a, b) == IF a < b THEN a ELSE b

\* Python's s[i:j] for 0 <= i <= j (out-of-range ends are clamped).
Slice(s, i, j) == SubSeq(s, i + 1, Min(j, Len(s)))

\* Python's s[i:].
SliceFrom(s, i) == SubSeq(s, i + 1, Len(s))

RECURSIVE Concat(_)
\* ''.join(ss)
Concat(ss) == IF ss = <<>> THEN <<>> ELSE Head(ss) \o Concat(Tail(ss))

RECURSIVE JoinSep(_)
\* os.sep.join(ss): the segments of a relative path written as one string.
JoinSep(ss) ==
  IF ss = <<>> THEN <<>>
  ELSE IF Len(ss) = 1 THEN Head(ss)
  ELSE Head(ss) \o <<"/">> \o JoinSep(Tail(ss))

RECURSIVE RemoveToken(_, _)
\* s.replace(t, ''): every occurrence of t is removed.
RemoveToken(s, t) ==
  IF s = <<>> THEN <<>>
  ELSE IF Head(s) = t THEN RemoveToken(Tail(s), t)
  ELSE <<Head(s)>> \o RemoveToken(Tail(s), t)

EndsWith(s, t) == s # <<>> /\ s[Len(s)] = t

StartsWith(s, t) == s # <<>> /\ s[1] = t

\* ------------------------------------------------------------ fingerprint
HexChars == <<"0", "1", "2", "3", "4", "5", "6", "7",
              "8", "9", "a", "b", "c", "d", "e", "f">>

RECURSIVE Pow16(_)
Pow16(n) == IF n = 0 THEN 1 ELSE 16 * Pow16(n - 1)

RECURSIVE HexOf(_, _)
\* n written with exactly k hex digits, leading zeros kept (hexdigest()).
HexOf(n, k) ==
  IF k = 0 THEN <<>> ELSE HexOf(n \div 16, k - 1) \o <<HexChars[(n % 16) + 1]>>

RECURSIVE Mix(_, _)
\* The digest of a byte string, as a number below 16^DigestLen.  It stands
\* for hashlib.sha256: a fixed function of the bytes alone, of fixed output
\* width whatever the length of the input.
Mix(bytes, h) ==
  IF bytes = <<>> THEN h
  ELSE Mix(Tail(bytes), (h * 7 + Head(bytes) * 1299721 + 104729) % Pow16(DigestLen))

Sha256Hex(bytes) == HexOf(Mix(bytes, 9004889), DigestLen)

\* The packages of the context model.  "broken" is a file that is no zip
\* archive or holds no META-INF/MANIFEST.MF: reading its manifest raises.
GoodApks == {"app", "other"}
Apks == GoodApks \cup {"broken"}

\* f.open('META-INF/MANIFEST.MF').read() for a package of the context model.
ManifestOf(a) == IF a = "app" THEN <<1, 0>> ELSE <<0, 1>>

HasManifest(a) == a \in GoodApks

\* Context.fingerprint_of for manifest-integrity content m.
FingerprintOfContent(m) == Sha256Hex(m)

\* os.environ['HOME'] joined with '.trueseeing2'.
CacheRoot == << <<"home">>, <<".trueseeing2">> >>

\* A layout whose last segment starts one character late.
WorkdirOfHash_OffByOne(hashed) ==
  CacheRoot \o << Slice(hashed, 0, 2), Slice(hashed, 2, 4), SliceFrom(hashed, 5) >>

\* Context.workdir_of for a fingerprint: root/h[:2]/h[2:4]/h[4:].
WorkdirOfHash(hashed) ==
  CacheRoot \o << Slice(hashed, 0, 2), Slice(hashed, 2, 4), SliceFrom(hashed, 4) >>

\* Context.workdir_of for a package whose manifest can be read.
workdir_of(a) == WorkdirOfHash(FingerprintOfContent(ManifestOf(a)))

\* ------------------------------------------------------------ trees
\* self.wd is None
NoneWd == <<>>

Smali == <<"smali">>
Smali2 == <<"smali", "_classes2">>
Res == <<"res">>

\* What the disassembler writes for each package, as paths relative to the
\* cache directory.
FullTree(a) ==
  IF a = "app"
  THEN { <<Smali, <<"a">>, <<"B", ".smali">> >>,
         <<Smali2, <<"c">>, <<"D", ".smali">> >>,
         <<Res, <<"values">>, <<"strings", ".xml">> >>,
         << <<"AndroidManifest", ".xml">> >> }
  ELSE { <<Smali, <<"c">>, <<"D", ".smali">> >>,
         <<Res, <<"layout">>, <<"main", ".xml">> >>,
         << <<"AndroidManifest", ".xml">> >> }

\* The tree while the disassembler is still writing, or after it died.
PartialTree(a) ==
  IF a = "app"
  THEN { <<Smali, <<"a">>, <<"B", ".smali">> >> }
  ELSE { <<Res, <<"layout">>, <<"main", ".xml">> >> }

\* glob(wd/'smali*/') + os.walk + f.endswith('.smali'), on a tree of
\* relative paths: the files under a top-level directory whose name starts
\* with "smali".
ClassFilesIn(tree) ==
  { f \in tree : Len(f) >= 2 /\ StartsWith(f[1], "smali")
                 /\ EndsWith(f[Len(f)], ".smali") }

\* os.walk(wd/'res') + f.endswith('.xml')
ResourceFilesIn(tree) ==
  { f \in tree : Len(f) >= 2 /\ f[1] = Res /\ EndsWith(f[Len(f)], ".xml") }

\* Context.source_name_of_disassembled_class: relpath(fn, wd) without its
\* first segment.
source_name_of_disassembled_class(fn, w) ==
  JoinSep(SubSeq(SubSeq(fn, Len(w) + 1, Len(fn)), 2, Len(fn) - Len(w)))

\* Context.dalvik_type_of_disassembled_class
dalvik_type_of_disassembled_class(fn, w) ==
  <<"L">> \o RemoveToken(source_name_of_disassembled_class(fn, w), ".smali") \o <<";">>

\* ------------------------------------------------------------ state
VARIABLES
  \* --- the filesystem and the analysis contexts (context.py)
  fsWritable,   \* whether directories can be created under the cache root
  disk,         \* cache directory -> [exists, tree, facts]
  apk,          \* context -> self.apk ("None" when unset)
  wd,           \* context -> self.wd (NoneWd when unset)
  handle,       \* context -> the directory self.state['ts2.store'] was opened on
  memo,         \* context -> kind -> self.state['ts2.context.disassembled_*']
  pc,           \* context -> where its analyze call stands
  callNo,       \* public calls made so far
  \* --- what the calls did (observations, read by the properties only)
  lastCall,     \* <<context, operation>> of the latest public call
  lastAnalyze,  \* context -> outcome of its latest analyze call
  lastStore,    \* context -> outcome of its latest store() call for querying
  nDisasm,      \* context -> disassembler invocations
  nParse,       \* context -> parser invocations
  disasmFailed, \* context -> its disassembler invocation failed
  hist,         \* context -> kind -> the calls of disassembled_<kind>()
  \* --- the path-to-type transform applied to one disassembly tree
  ttree,        \* the files of the tree, relative to the cache directory
  ttypes,       \* class file -> its canonical type name, once computed
  \* --- workdir_of applied to three packages
  wm,           \* package -> its manifest-integrity content
  whash,        \* package -> its fingerprint, once computed
  wpaths,       \* package -> its cache directory, once computed
  \* --- one run of a search command (search.py)
  scmd,         \* the command ("none" before it is given)
  snargs,       \* arguments given after the command word
  svalid,       \* whether the pattern given is a valid regular expression
  spc,          \* "idle", "iter" (in the result loop) or "done"
  sleft,        \* entries the match sequence has yet to yield
  sout,         \* entries handed to the output so far
  sopen,        \* an unscoped query's snapshot is open
  sacq,         \* query resources acquired
  srel,         \* query resources released
  sanalyzed,    \* the analysis was started
  soutcome,     \* how the command ended
  \* --- the config command and its modifier (config.py)
  cconf,        \* known key -> its value in the helper's configuration
  cstash,       \* self._stash: bound key -> the value to restore
  cbind,        \* key -> text and prior value of the begin that last bound it
  couter,       \* key -> its value before the begin that bound it first
  clast,        \* the latest event: [ev, val, exc]
  \* --- ManifestManipContentProvider.detect on one manifest (manifest.py)
  pman,         \* the components declared, in document order
  pissues,      \* the issues raised, in order
  pdone,        \* detect has run
  \* --- ManifestCleartextPermitted.detect on one package (manifest.py)
  xapi,         \* the minimum SDK version
  xapps,        \* the <application> elements, in document order
  xres,         \* the XML resources, in order
  xissues,      \* the sources of the issues raised, in order
  xdone         \* detect has run

ctxVars == <<fsWritable, disk, apk, wd, handle, memo, pc, callNo, lastCall,
             lastAnalyze, lastStore, nDisasm, nParse, disasmFailed, hist>>

treeVars == <<ttree, ttypes>>
workdirVars == <<wm, whash, wpaths>>
searchVars == <<scmd, snargs, svalid, spc, sleft, sout, sopen, sacq, srel,
                sanalyzed, soutcome>>

configVars == <<cconf, cstash, cbind, couter, clast>>
providerVars == <<pman, pissues, pdone>>
cleartextVars == <<xapi, xapps, xres, xissues, xdone>>
sigVars == <<providerVars, cleartextVars>>

vars == <<ctxVars, treeVars, workdirVars, searchVars, configVars, sigVars>>

\* The parts of the state a specification does not exercise stay as they are
\* here.
TreeIdle == ttree = {} /\ ttypes = <<>>
WorkdirIdle == wm = <<>> /\ whash = <<>> /\ wpaths = <<>>
SearchIdle ==
  /\ scmd = "none" /\ snargs = 0 /\ svalid = TRUE /\ spc = "idle" /\ sleft = 0
  /\ sout = 0 /\ sopen = FALSE /\ sacq = 0 /\ srel = 0 /\ sanalyzed = FALSE
  /\ soutcome = "none"
ConfigIdle ==
  /\ cconf = <<>> /\ cstash = <<>> /\ cbind = <<>> /\ couter = <<>>
  /\ clast = <<>>
ProviderIdle == pman = <<>> /\ pissues = <<>> /\ pdone = FALSE
CleartextIdle ==
  /\ xapi = 0 /\ xapps = <<>> /\ xres = <<>> /\ xissues = <<>>
  /\ xdone = FALSE
SigIdle == ProviderIdle /\ CleartextIdle

Ctxs == {1, 2}
Kinds == {"classes", "resources"}
Dirs == { workdir_of(a) : a \in GoodApks }

\* A cache directory that was never created.
AbsentDir == [exists |-> FALSE, tree |-> {}, facts |-> {}]

\* The cache directory an earlier, completed run for package a left behind.
CompleteDir(a) ==
  [exists |-> TRUE, tree |-> FullTree(a), facts |-> ClassFilesIn(FullTree(a))]

\* The cache directory an earlier run left behind that died while disassembling.
CrashedDir(a) ==
  [exists |-> TRUE, tree |-> PartialTree(a), facts |-> {}]

\* self.state has no entry under the key
NoMemo == [set |-> FALSE, val |-> {}]

\* The outcome of a call: the exception raised ("" when it returned) and the
\* value returned.
Returned(v) == [exc |-> "", val |-> v]
Raised(e) == [exc |-> e, val |-> {}]
NoOutcome == [exc |-> "none", val |-> {}]

NoHist == [calls |-> 0, first |-> NoOutcome, last |-> NoOutcome,
           enums |-> 0, touched |-> FALSE]

\* ------------------------------------------------------------ memoized readers
FilesOfKind(k, tree) ==
  IF k = "classes" THEN ClassFilesIn(tree) ELSE ResourceFilesIn(tree)

\* What the walk of the tree under directory w finds on filesystem dsk.  glob
\* of a missing directory matches nothing and os.walk of a missing directory
\* yields nothing (it swallows the scandir error): neither raises.
Enumerate(k, w, dsk) ==
  IF dsk[w].exists THEN { w \o f : f \in FilesOfKind(k, dsk[w].tree) } ELSE {}

\* try: return self.state[key]
MemoHit(m) == m.set

\* os.path.join(self.wd, ...) raises TypeError when self.wd is None; the
\* entry was already set to [] by then.
JoinRaises(w) == w = NoneWd

\* The memo entry after a call of disassembled_<k>() on a context with work
\* directory w and memo entry m.
MemoAfter(k, m, w, dsk) ==
  IF MemoHit(m) THEN m
  ELSE IF JoinRaises(w) THEN [set |-> TRUE, val |-> {}]
  ELSE [set |-> TRUE, val |-> Enumerate(k, w, dsk)]

\* The outcome of that call.
MemoOutcome(k, m, w, dsk) ==
  IF MemoHit(m) THEN Returned(m.val)
  ELSE IF JoinRaises(w) THEN Raised("TypeError")
  ELSE Returned(Enumerate(k, w, dsk))

\* Whether that call walked the filesystem.
MemoWalks(m, w) == ~MemoHit(m) /\ ~JoinRaises(w)

HistAfter(h, k, m, w, dsk) ==
  [calls   |-> Min(h.calls + 1, 2),
   first   |-> IF h.calls = 0 THEN MemoOutcome(k, m, w, dsk) ELSE h.first,
   last    |-> MemoOutcome(k, m, w, dsk),
   enums   |-> h.enums + (IF MemoWalks(m, w) THEN 1 ELSE 0),
   touched |-> MemoWalks(m, w)]

\* ------------------------------------------------------------ Context
CtxInit ==
  /\ fsWritable \in BOOLEAN
  /\ disk \in [Dirs -> {AbsentDir} \cup { CompleteDir(a) : a \in GoodApks }
                                   \cup { CrashedDir(a) : a \in GoodApks }]
  /\ \A a \in GoodApks :
       disk[workdir_of(a)] \in {AbsentDir, CompleteDir(a), CrashedDir(a)}
  /\ apk = [c \in Ctxs |-> "None"]
  /\ wd = [c \in Ctxs |-> NoneWd]
  /\ handle = [c \in Ctxs |-> NoneWd]
  /\ memo = [c \in Ctxs |-> [k \in Kinds |-> NoMemo]]
  /\ pc = [c \in Ctxs |-> "idle"]
  /\ callNo = 0
  /\ lastCall = <<0, "none">>
  /\ lastAnalyze = [c \in Ctxs |-> "none"]
  /\ lastStore = [c \in Ctxs |-> "none"]
  /\ nDisasm = [c \in Ctxs |-> 0]
  /\ nParse = [c \in Ctxs |-> 0]
  /\ disasmFailed = [c \in Ctxs |-> FALSE]
  /\ hist = [c \in Ctxs |-> [k \in Kinds |-> NoHist]]

\* No context is used: a writable filesystem without cache directories.
CtxIdle == CtxInit /\ fsWritable /\ \A d \in Dirs : disk[d] = AbsentDir

Init == CtxInit /\ TreeIdle /\ WorkdirIdle /\ SearchIdle /\ ConfigIdle /\ SigIdle

\* A public call of operation op on context c begins.
Call(c, op) ==
  /\ pc[c] = "idle"
  /\ callNo < MaxCalls
  /\ callNo' = callNo + 1
  /\ lastCall' = <<c, op>>
  /\ UNCHANGED <<treeVars, workdirVars, searchVars, configVars, sigVars>>

\* A guard that takes the opened store, not the work directory, as the mark
\* of an analyzed context.
AlreadyAnalyzed_StoreOpened(c) == handle[c] # NoneWd

\* if self.wd is None: ... else: raise ValueError('analyzed once')
AlreadyAnalyzed(c) == wd[c] # NoneWd

\* os.makedirs(..., exist_ok=True): an existing directory is no error.
MakedirsRaises_ExistOk(w) == ~fsWritable

\* os.makedirs(self.wd, mode=0o700) raises OSError: the directory exists, or
\* it cannot be created.
MakedirsRaises(w) == disk[w].exists \/ ~fsWritable

\* Context.analyze, up to the point where it returns, raises, or starts the
\* disassembler (os.system blocks the caller while other processes run).
AnalyzeCall(c, a) ==
  /\ Call(c, "analyze")
  /\ IF AlreadyAnalyzed(c)
     THEN /\ lastAnalyze' = [lastAnalyze EXCEPT ![c] = "ValueError"]
          /\ UNCHANGED <<apk, wd, disk, pc, nDisasm>>
     ELSE /\ apk' = [apk EXCEPT ![c] = a]
          /\ IF ~HasManifest(a)
             THEN \* fingerprint_of raises; self.wd was not assigned
                  /\ lastAnalyze' = [lastAnalyze EXCEPT ![c] = "BadZipFile"]
                  /\ UNCHANGED <<wd, disk, pc, nDisasm>>
             ELSE /\ wd' = [wd EXCEPT ![c] = workdir_of(a)]
                  /\ IF MakedirsRaises(workdir_of(a))
                     THEN \* except OSError: pass
                          /\ lastAnalyze' = [lastAnalyze EXCEPT ![c] = "ok"]
                          /\ UNCHANGED <<disk, pc, nDisasm>>
                     ELSE /\ disk' = [disk EXCEPT ![workdir_of(a)].exists = TRUE]
                          /\ pc' = [pc EXCEPT ![c] = "disasm"]
                          /\ nDisasm' = [nDisasm EXCEPT ![c] = @ + 1]
                          /\ lastAnalyze' = [lastAnalyze EXCEPT ![c] = "running"]
  /\ UNCHANGED <<fsWritable, handle, memo, lastStore, nParse, disasmFailed, hist>>

\* The disassembler, started by context c, has written part of the tree.
ApktoolWrites(c) ==
  /\ pc[c] = "disasm"
  /\ disk[wd[c]].tree = {}
  /\ disk' = [disk EXCEPT ![wd[c]].tree = PartialTree(apk[c])]
  /\ UNCHANGED <<fsWritable, apk, wd, handle, memo, pc, callNo, lastCall,
                 lastAnalyze, lastStore, nDisasm, nParse, disasmFailed, hist>>
  /\ UNCHANGED <<treeVars, workdirVars, searchVars, configVars, sigVars>>

\* os.system returns (the disassembler exited, with success or not; the
\* return value is dropped); analyze then opens the store (self.store()),
\* lists the class files (self.disassembled_classes()), reads them and calls
\* the parser.
ApktoolExits(c, ok) ==
  LET dsk == IF ok THEN [disk EXCEPT ![wd[c]].tree = FullTree(apk[c])] ELSE disk
  IN
  /\ pc[c] = "disasm"
  /\ disk' = dsk
  /\ disasmFailed' = [disasmFailed EXCEPT ![c] = ~ok]
  /\ pc' = [pc EXCEPT ![c] = "ingest"]
  /\ handle' = [handle EXCEPT ![c] = wd[c]]
  /\ memo' = [memo EXCEPT ![c]["classes"] = MemoAfter("classes", @, wd[c], dsk)]
  /\ hist' = [hist EXCEPT ![c]["classes"] =
                HistAfter(@, "classes", memo[c]["classes"], wd[c], dsk)]
  /\ nParse' = [nParse EXCEPT ![c] = @ + 1]
  /\ UNCHANGED <<fsWritable, apk, wd, callNo, lastCall, lastAnalyze, lastStore,
                 nDisasm>>
  /\ UNCHANGED <<treeVars, workdirVars, searchVars, configVars, sigVars>>

\* SmaliAnalyzer(store).analyze(...) returns: every class handed to it is in
\* the store; the with block closes and analyze returns.
IngestReturns(c) ==
  /\ pc[c] = "ingest"
  /\ disk' = [disk EXCEPT ![wd[c]].facts =
                { SubSeq(f, Len(wd[c]) + 1, Len(f)) : f \in memo[c]["classes"].val }]
  /\ pc' = [pc EXCEPT ![c] = "idle"]
  /\ lastAnalyze' = [lastAnalyze EXCEPT ![c] = "ok"]
  /\ UNCHANGED <<fsWritable, apk, wd, handle, memo, callNo, lastCall, lastStore,
                 nDisasm, nParse, disasmFailed, hist>>
  /\ UNCHANGED <<treeVars, workdirVars, searchVars, configVars, sigVars>>

\* Reading a class file or parsing it raises part-way: analyze raises with
\* the store holding what was inserted before.
IngestRaises(c) ==
  /\ pc[c] = "ingest"
  /\ \E done \in SUBSET memo[c]["classes"].val :
       disk' = [disk EXCEPT ![wd[c]].facts =
                     { SubSeq(f, Len(wd[c]) + 1, Len(f)) : f \in done }]
  /\ pc' = [pc EXCEPT ![c] = "idle"]
  /\ lastAnalyze' = [lastAnalyze EXCEPT ![c] = "ParseError"]
  /\ UNCHANGED <<fsWritable, apk, wd, handle, memo, callNo, lastCall, lastStore,
                 nDisasm, nParse, disasmFailed, hist>>
  /\ UNCHANGED <<treeVars, workdirVars, searchVars, configVars, sigVars>>

\* assert self.wd is not None
StoreReady(c) == wd[c] # NoneWd

\* Context.store, called by a consumer to query.
StoreCall(c) ==
  /\ Call(c, "store")
  /\ IF StoreReady(c)
     THEN /\ handle' = [handle EXCEPT ![c] = IF @ = NoneWd THEN wd[c] ELSE @]
          /\ lastStore' = [lastStore EXCEPT ![c] = "handle"]
     ELSE /\ lastStore' = [lastStore EXCEPT ![c] = "AssertionError"]
          /\ UNCHANGED handle
  /\ UNCHANGED <<fsWritable, disk, apk, wd, memo, pc, lastAnalyze, nDisasm,
                 nParse, disasmFailed, hist>>

\* Context.disassembled_classes / Context.disassembled_resources
DisassembledCall(c, k) ==
  /\ Call(c, k)
  /\ memo' = [memo EXCEPT ![c][k] = MemoAfter(k, @, wd[c], disk)]
  /\ hist' = [hist EXCEPT ![c][k] = HistAfter(@, k, memo[c][k], wd[c], disk)]
  /\ UNCHANGED <<fsWritable, disk, apk, wd, handle, pc, lastAnalyze, lastStore,
                 nDisasm, nParse, disasmFailed>>

Next ==
  \/ \E c \in Ctxs, a \in Apks : AnalyzeCall(c, a)
  \/ \E c \in Ctxs : ApktoolWrites(c)
  \/ \E c \in Ctxs, ok \in BOOLEAN : ApktoolExits(c, ok)
  \/ \E c \in Ctxs : IngestReturns(c)
  \/ \E c \in Ctxs : IngestRaises(c)
  \/ \E c \in Ctxs : StoreCall(c)
  \/ \E c \in Ctxs, k \in Kinds : DisassembledCall(c, k)

Spec == Init /\ [][Next]_vars

\* ------------------------------------------------------------ path to type
\* The files a disassembly tree may hold.  A package can define one class in
\* two of its dex files, and the disassembler writes each dex file's classes
\* under a root of their own (smali/, smali_classes2/).
TreeUniverse ==
  { <<Smali, <<"a">>, <<"B", ".smali">> >>,
    <<Smali2, <<"a">>, <<"B", ".smali">> >>,
    <<Smali, <<"a">>, <<"C", ".smali">> >>,
    <<Smali2, <<"c">>, <<"D", ".smali">> >>,
    <<Smali, <<"B", ".smali">> >>,
    <<Res, <<"values">>, <<"strings", ".xml">> >>,
    << <<"unknown">>, <<"a">>, <<"B", ".smali">> >> }

\* The cache directory of the tree.
TreeWd == workdir_of("app")

TreeInit ==
  /\ ttree \in SUBSET TreeUniverse
  /\ ttypes = <<>>

\* dalvik_type_of_disassembled_class applied to every file that
\* disassembled_classes() returns.
ComputeTypes ==
  /\ ttypes = <<>>
  /\ ClassFilesIn(ttree) # {}
  /\ ttypes' = [fn \in { TreeWd \o f : f \in ClassFilesIn(ttree) } |->
                  dalvik_type_of_disassembled_class(fn, TreeWd)]
  /\ UNCHANGED <<ttree, ctxVars, workdirVars, searchVars, configVars, sigVars>>

InitTree ==
  TreeInit /\ CtxIdle /\ WorkdirIdle /\ SearchIdle /\ ConfigIdle /\ SigIdle

SpecTree == InitTree /\ [][ComputeTypes]_vars

\* ------------------------------------------------------------ workdir_of
RECURSIVE SeqsUpTo(_, _)
\* The sequences over set S of length at most n.
SeqsUpTo(S, n) ==
  IF n = 0 THEN { <<>> }
  ELSE LET shorter == SeqsUpTo(S, n - 1)
       IN shorter \cup { Append(q, x) : q \in shorter, x \in S }

\* The manifest-integrity contents drawn: byte strings over two byte values.
Contents == SeqsUpTo({0, 1}, MaxContentLen)

Pkgs == 1 .. 3

WorkdirInit ==
  /\ wm \in [Pkgs -> Contents]
  /\ whash = <<>>
  /\ wpaths = <<>>

\* fingerprint_of and workdir_of applied to each package.
ComputeWorkdirs ==
  /\ wpaths = <<>>
  /\ whash' = [i \in Pkgs |-> FingerprintOfContent(wm[i])]
  /\ wpaths' = [i \in Pkgs |-> WorkdirOfHash(FingerprintOfContent(wm[i]))]
  /\ UNCHANGED <<wm, ctxVars, treeVars, searchVars, configVars, sigVars>>

InitWorkdir ==
  WorkdirInit /\ CtxIdle /\ TreeIdle /\ SearchIdle /\ ConfigIdle /\ SigIdle

SpecWorkdir == InitWorkdir /\ [][ComputeWorkdirs]_vars

\* ------------------------------------------------------------ search commands
\* The command words: get_commands' keys, with /pi, the instance-field form
\* of /p (cmd.endswith('i')).
Cmds == {"/c", "/k", "/p", "/pi", "/dp", "/dc", "/dcx", "/dci", "/dm"}

\* A handler set in which /dm falls back to a default pattern.
NeedsArg_DmDefaults(cmd) == cmd \in {"/c", "/k", "/dc", "/dcx", "/dci"}

\* The commands that raise ui.fatal('need ...') when no argument follows.
NeedsArg(cmd) == cmd \in {"/c", "/k", "/dc", "/dcx", "/dci", "/dm"}

\* Whether the command line gives a pattern (a pattern left out is '.'): the
\* first argument, or for /k the second, its first being the instruction.
PatternGiven(cmd, nargs) == IF cmd = "/k" THEN nargs >= 2 ELSE nargs >= 1

\* The commands that query the fact store.
QueriesStore(cmd) == cmd # "/dp"

\* The commands whose loop runs inside 'with context.store().query().scoped()
\* as q'; the others take q = context.store().query() and never close it.
UsesScoped(cmd) == cmd \in {"/c", "/k", "/dc", "/dcx"}

\* Query.scoped().__enter__: the scope's resource is acquired.
ScopedEnterAcquires == 1

\* Query.scoped().__exit__: the scope's resource is released, on a normal exit
\* and on an exception alike.
ScopedExitReleases == 1

\* An unscoped query opens a snapshot of its own when its sequence is first
\* pulled, and releases it itself when the sequence ends or the query raises;
\* a sequence that its consumer abandons is not run to either.
BareReleasesOn(ev) == ev \in {"exhausted", "query_raises"}

\* No command was given yet.
SearchInit == SearchIdle

\* A command handler, from its call to the start of its result loop:
\* require_target, the argument checks, analyze, and the acquisition of q.
SearchBegin(cmd, nargs, valid, n) ==
  /\ spc = "idle"
  /\ scmd' = cmd
  /\ snargs' = nargs
  /\ svalid' = (valid \/ ~PatternGiven(cmd, nargs))
  /\ sout' = 0
  /\ sopen' = FALSE
  /\ srel' = 0
  /\ IF NeedsArg(cmd) /\ nargs = 0
     THEN \* ui.fatal
          /\ spc' = "done"
          /\ soutcome' = "FatalError"
          /\ sleft' = 0
          /\ sacq' = 0
          /\ sanalyzed' = FALSE
     ELSE /\ spc' = "iter"
          /\ soutcome' = "running"
          /\ sleft' = n
          /\ sanalyzed' = TRUE
          /\ sacq' = IF QueriesStore(cmd) /\ UsesScoped(cmd)
                     THEN ScopedEnterAcquires ELSE 0
  /\ UNCHANGED <<ctxVars, treeVars, workdirVars, configVars, sigVars>>

\* What the end of the loop by event ev releases.
ReleasedAtEnd(ev) ==
  IF ~QueriesStore(scmd) THEN 0
  ELSE IF UsesScoped(scmd) THEN ScopedExitReleases
  ELSE IF BareReleasesOn(ev) THEN 1
  ELSE 0

\* What an unscoped query acquires when its sequence is pulled.
AcquiredByPull ==
  IF QueriesStore(scmd) /\ ~UsesScoped(scmd) /\ ~sopen THEN 1 ELSE 0

\* One entry comes out of the formatter and is handed to the output.
SearchEntry ==
  /\ spc = "iter"
  /\ svalid
  /\ sleft > 0
  /\ sleft' = sleft - 1
  /\ sout' = sout + 1
  /\ sacq' = sacq + AcquiredByPull
  /\ sopen' = (sopen \/ AcquiredByPull = 1)
  /\ UNCHANGED <<scmd, snargs, svalid, spc, srel, sanalyzed, soutcome,
                 ctxVars, treeVars, workdirVars, configVars, sigVars>>

\* The loop ends: the sequence is exhausted and the handler returns. A store
\* query compiles its pattern before it yields or ends, so it ends only under a
\* valid pattern; /dp has its own loop, 'for pkg in sorted(packages)', which
\* ends without ever reaching re.match when there is no package.
SearchExhausted ==
  /\ spc = "iter"
  /\ sleft = 0
  /\ svalid \/ ~QueriesStore(scmd)
  /\ spc' = "done"
  /\ soutcome' = "returned"
  /\ sacq' = sacq + AcquiredByPull
  /\ srel' = srel + ReleasedAtEnd("exhausted")
  /\ sopen' = FALSE
  /\ UNCHANGED <<scmd, snargs, svalid, sleft, sout, sanalyzed,
                 ctxVars, treeVars, workdirVars, configVars, sigVars>>

\* /dp tests a package that the pattern does not match: nothing is output.
SearchNoMatch ==
  /\ spc = "iter"
  /\ scmd = "/dp"
  /\ svalid
  /\ sleft > 0
  /\ sleft' = sleft - 1
  /\ UNCHANGED <<scmd, snargs, svalid, spc, sout, sopen, sacq, srel, sanalyzed,
                 soutcome, ctxVars, treeVars, workdirVars, configVars, sigVars>>

\* A store query compiles its pattern when its sequence is first pulled and
\* fails there on an invalid one, whatever the store holds; a storage error can
\* strike while entries are left.
QueryPullRaises(valid, left) == ~valid \/ left > 0

\* /dp: re.match(pat, pkg) raises on an invalid pattern, inside the loop over
\* the packages, so only when there is a package to test.
PackageLoopRaises(valid, left) == ~valid /\ left > 0

PullRaises ==
  IF QueriesStore(scmd) THEN QueryPullRaises(svalid, sleft)
  ELSE PackageLoopRaises(svalid, sleft)

\* Pulling the sequence raises: an invalid pattern or a storage error.
SearchQueryRaises ==
  /\ spc = "iter"
  /\ PullRaises
  /\ spc' = "done"
  /\ soutcome' = IF svalid THEN "StorageError" ELSE "PatternError"
  /\ sacq' = sacq + AcquiredByPull
  /\ srel' = srel + ReleasedAtEnd("query_raises")
  /\ sopen' = FALSE
  /\ UNCHANGED <<scmd, snargs, svalid, sleft, sout, sanalyzed,
                 ctxVars, treeVars, workdirVars, configVars, sigVars>>

\* An entry was pulled and the formatter (who = "formatter") or ui.info (who =
\* "output") raises on it: the handler raises with the sequence not exhausted.
SearchConsumerRaises(who) ==
  /\ spc = "iter"
  /\ svalid
  /\ sleft > 0
  /\ spc' = "done"
  /\ soutcome' = IF who = "formatter" THEN "FormatError" ELSE "OutputError"
  /\ sleft' = sleft - 1
  /\ sacq' = sacq + AcquiredByPull
  /\ srel' = srel + ReleasedAtEnd(who)
  /\ sopen' = (sopen \/ AcquiredByPull = 1) /\ ReleasedAtEnd(who) = 0
  /\ UNCHANGED <<scmd, snargs, svalid, sout, sanalyzed,
                 ctxVars, treeVars, workdirVars, configVars, sigVars>>

SearchNext ==
  \/ \E cmd \in Cmds, nargs \in 0 .. 2, valid \in BOOLEAN, n \in 0 .. MaxMatches :
       SearchBegin(cmd, nargs, valid, n)
  \/ SearchEntry
  \/ SearchNoMatch
  \/ SearchExhausted
  \/ SearchQueryRaises
  \/ \E who \in {"formatter", "output"} : SearchConsumerRaises(who)

InitSearch ==
  SearchInit /\ CtxIdle /\ TreeIdle /\ WorkdirIdle /\ ConfigIdle /\ SigIdle

SpecSearch == InitSearch /\ [][SearchNext]_vars

\* ------------------------------------------------------------ config command
\* A text is a sequence of tokens; the token "=" is the character '='.
Eq == "="

\* '=' in val
HasEq(t) == \E i \in 1 .. Len(t) : t[i] = Eq

\* The position of the first '=' of a text that has one.
FirstEq(t) == CHOOSE i \in 1 .. Len(t) : t[i] = Eq /\ \A j \in 1 .. i - 1 : t[j] # Eq

\* val.split('='): the pieces between the '=' characters, all of them.
RECURSIVE SplitEq(_)
SplitEq(t) ==
  IF ~HasEq(t) THEN <<t>>
  ELSE <<SubSeq(t, 1, FirstEq(t) - 1)>> \o SplitEq(SubSeq(t, FirstEq(t) + 1, Len(t)))

\* 'k, v = val.split('=')' raises ValueError unless there are two pieces.
UnpackRaises(parts) == Len(parts) # 2

\* The keys of the configuration, and a key it does not have.
KnownKeys == {<<"debug">>, <<"level">>}
UnknownKey == <<"nokey">>

\* The values a text can carry: empty, plain, or with a '=' inside.
ConfigValues == {<<>>, <<"0">>, <<"1">>, <<"a", Eq, "b">>}

\* The texts given to the command and to the modifier: 'key' and 'key=value'.
ConfigTexts ==
  LET keys == KnownKeys \cup {UnknownKey}
  IN  keys \cup { k \o <<Eq>> \o v : k \in keys, v \in ConfigValues }

\* CommandHelper.get_config raises InvalidConfigKeyError on a key the
\* configuration does not have, and so does set_config.
InvalidConfigKey(conf, k) == k \notin DOMAIN conf

\* CommandHelper.get_config
get_config(conf, k) == conf[k]

\* CommandHelper.set_config: the value is stored as given.
set_config(conf, k, v) == [conf EXCEPT ![k] = v]

\* The outcome of a handler: the configuration and the stash it leaves, and
\* the exception it raised ("" when it returned).  ui.fatal raises.
Outcome(conf, stash, exc) == [conf |-> conf, stash |-> stash, exc |-> exc]

\* self._stash[k] = ov
StashPut(stash, k, ov) ==
  [x \in DOMAIN stash \cup {k} |-> IF x = k THEN ov ELSE stash[x]]

\* del self._stash[k]
StashDel(stash, k) == [x \in DOMAIN stash \ {k} |-> stash[x]]

\* A begin that binds over a key already bound.
AlreadyBound_Rebinds(stash, k) == FALSE

\* if k in self._stash: ui.fatal('config key is already bound')
AlreadyBound(stash, k) == k \in DOMAIN stash

\* ConfigCommand._mod(ev, val)
ModOutcome(ev, val, conf, stash) ==
  IF ~HasEq(val) THEN Outcome(conf, stash, "need a value")
  ELSE IF UnpackRaises(SplitEq(val)) THEN Outcome(conf, stash, "ValueError")
  ELSE
    LET k == SplitEq(val)[1]
        v == SplitEq(val)[2]
    IN  IF ev = "begin"
        THEN IF AlreadyBound(stash, k) THEN Outcome(conf, stash, "already bound")
             ELSE IF InvalidConfigKey(conf, k)
                  THEN Outcome(conf, stash, "unknown key")
             ELSE Outcome(set_config(conf, k, v),
                          StashPut(stash, k, get_config(conf, k)), "")
        ELSE IF k \notin DOMAIN stash
             THEN Outcome(conf, stash, "AssertionError")
             ELSE Outcome(set_config(conf, k, stash[k]), StashDel(stash, k), "")

\* ConfigCommand._manip on 'e kv': 'e key' shows the value, 'e key=value'
\* sets it.
ManipOutcome(kv, conf, stash) ==
  IF ~HasEq(kv)
  THEN Outcome(conf, stash, IF InvalidConfigKey(conf, kv) THEN "unknown key" ELSE "")
  ELSE IF UnpackRaises(SplitEq(kv)) THEN Outcome(conf, stash, "ValueError")
  ELSE
    LET key == SplitEq(kv)[1]
        value == SplitEq(kv)[2]
    IN  IF value = <<>> THEN Outcome(conf, stash, "need a value")
        ELSE IF InvalidConfigKey(conf, key) THEN Outcome(conf, stash, "unknown key")
        ELSE Outcome(set_config(conf, key, value), stash, "")

\* The command object is constructed with an empty stash, over a
\* configuration that has a plain value under each key.
ConfigInit ==
  /\ cconf \in [KnownKeys -> {<<"0">>, <<"1">>}]
  /\ cstash = <<>>
  /\ cbind = <<>>
  /\ couter = <<>>
  /\ clast = [ev |-> "none", val |-> <<>>, exc |-> ""]

\* The modifier event ev ('begin' or 'end') with text val.
Mod(ev, val) ==
  LET o == ModOutcome(ev, val, cconf, cstash)
      k == SplitEq(val)[1]
      bound == ev = "begin" /\ o.exc = ""
  IN  /\ cconf' = o.conf
      /\ cstash' = o.stash
      /\ clast' = [ev |-> ev, val |-> val, exc |-> o.exc]
      /\ cbind' = IF bound
                  THEN StashPut(cbind, k, [text |-> val, before |-> cconf[k]])
                  ELSE cbind
      /\ couter' = IF bound /\ k \notin DOMAIN cstash
                   THEN StashPut(couter, k, cconf[k])
                   ELSE couter
      /\ UNCHANGED <<ctxVars, treeVars, workdirVars, searchVars, sigVars>>

\* The command 'e kv'.
Manip(kv) ==
  LET o == ManipOutcome(kv, cconf, cstash)
  IN  /\ cconf' = o.conf
      /\ cstash' = o.stash
      /\ clast' = [ev |-> "e", val |-> kv, exc |-> o.exc]
      /\ UNCHANGED <<cbind, couter, ctxVars, treeVars, workdirVars, searchVars,
                     sigVars>>

ConfigNext ==
  \/ \E val \in ConfigTexts : Mod("begin", val)
  \/ \E val \in ConfigTexts : Mod("end", val)
  \/ \E kv \in ConfigTexts : Manip(kv)

InitConfig ==
  ConfigInit /\ CtxIdle /\ TreeIdle /\ WorkdirIdle /\ SearchIdle /\ SigIdle

SpecConfig == InitConfig /\ [][ConfigNext]_vars

\* ------------------------------------------------------------ manifest detectors
\* A component or action name is the sequence of its dot-separated segments.
\* str.lower on a segment, for the segments that occur here.
Lower(seg) == IF seg = "COM" THEN "com" ELSE seg

\* The top-level domains of libs/tlds.txt.
Tlds == {"com", "org"}

\* '.intent.action.' in name
HasIntentAction(name) ==
  \E i \in 2 .. Len(name) - 2 : name[i] = "intent" /\ name[i + 1] = "action"

\* ComponentNamePolicy.looks_public
looks_public(name) ==
  IF Len(name) >= 2
  THEN \/ name[1] = "android"
       \/ HasIntentAction(name)
       \/ Lower(name[1]) \in Tlds
  ELSE FALSE

\* Components per manifest.
MaxComponents == 2

ActionPublic == <<"COM", "app", "SYNC">>
ActionAndroid == <<"android", "intent", "action", "VIEW">>
ActionPrivate == <<"myapp", "SYNC">>
ActionUndotted == <<"SYNC">>
ActionVendor == <<"myapp", "intent", "action", "GO">>

\* What a component can carry as intent-filter actions, in document order.
ActionLists ==
  {<<>>, <<ActionPublic, ActionAndroid>>, <<ActionPrivate>>,
   <<ActionUndotted, ActionVendor, ActionPrivate>>}

\* The components a manifest is made of: the element's tag, its android:name,
\* whether it has android:permission, its android:exported ("" when absent),
\* whether it has an intent-filter, and that filter's action names.
Components ==
  { c \in [tag : {"provider", "receiver", "activity"}, name : {"P", "Q"},
           permission : BOOLEAN, exported : {"", "true", "false"},
           filter : BOOLEAN, actions : ActionLists] :
      ~c.filter => c.actions = <<>> }

\* //<tag>[@android:name="<name>"]/intent-filter/action/@android:name
RECURSIVE ActionsOf(_, _, _)
ActionsOf(man, tag, name) ==
  IF man = <<>> THEN <<>>
  ELSE (IF Head(man).tag = tag /\ Head(man).name = name /\ Head(man).filter
        THEN Head(man).actions ELSE <<>>) \o ActionsOf(Tail(man), tag, name)

\* //provider[not(@android:permission)]/intent-filter/../@android:name with
\* //provider[not(@android:permission) and (@android:exported="true")]/@android:name,
\* as a set.
ExportedProviderNames(man) ==
  { man[i].name : i \in { j \in 1 .. Len(man) :
      /\ man[j].tag = "provider"
      /\ ~man[j].permission
      /\ (man[j].filter \/ man[j].exported = "true") } }

\* The elements of a set one after the other, as a loop over it visits them.
RECURSIVE SeqOfSet(_)
SeqOfSet(S) ==
  IF S = {} THEN <<>>
  ELSE LET x == CHOOSE y \in S : TRUE IN <<x>> \o SeqOfSet(S \ {x})

\* The action names the detector tests for the provider named name.
FilterActions(man, name) ==
  SelectSeq(ActionsOf(man, "receiver", name), LAMBDA a : ~looks_public(a))

\* The issue raised for the provider named name; info2 is the list that
\* ', '.join turns into one string.
ProviderIssue(man, name) ==
  IF FilterActions(man, name) = <<>>
  THEN [summary |-> "manipulatable ContentProvider", info1 |-> name,
        info2 |-> <<>>, source |-> "AndroidManifest.xml"]
  ELSE [summary |-> "manipulatable ContentProvider with private action names",
        info1 |-> name, info2 |-> FilterActions(man, name),
        source |-> "AndroidManifest.xml"]

\* A manifest was parsed; the detector has not run.
ProviderInit ==
  /\ pman \in UNION { [1 .. n -> Components] : n \in 0 .. MaxComponents }
  /\ pissues = <<>>
  /\ pdone = FALSE

\* ManifestManipContentProvider.detect
DetectProvider ==
  /\ ~pdone
  /\ pdone' = TRUE
  /\ pissues' = [i \in 1 .. Cardinality(ExportedProviderNames(pman)) |->
                   ProviderIssue(pman, SeqOfSet(ExportedProviderNames(pman))[i])]
  /\ UNCHANGED <<pman, cleartextVars, ctxVars, treeVars, workdirVars,
                 searchVars, configVars>>

InitProvider ==
  /\ ProviderInit /\ CleartextIdle /\ CtxIdle /\ TreeIdle /\ WorkdirIdle
  /\ SearchIdle /\ ConfigIdle

SpecProvider == InitProvider /\ [][DetectProvider]_vars

\* ---- ManifestCleartextPermitted
\* <application> elements per manifest, and XML resources per package.
MaxApplications == 2
MaxResources == 1

\* The minimum SDK versions drawn, around the thresholds the detector tests.
ApiLevels == {23, 24, 27, 28}

\* e.attrib.get(...) of an attribute the element does not have.
NoAttr == "None"

\* An <application> element: whether it has android:networkSecurityConfig,
\* and its android:usesCleartextTraffic.
Applications ==
  [nsc : BOOLEAN, uct : {NoAttr, "true", "TRUE", "false"}]

\* An XML resource: its file, whether its root tag names a
\* network-security-config, and whether some element under it has
\* cleartextTrafficPermitted="false", "true".
XmlResources ==
  [fn : {<<<<"xml">>, <<"net.xml">>>>}, nsc : BOOLEAN, hasFalse : BOOLEAN,
   hasTrue : BOOLEAN]

\* str.lower, for the attribute values that occur here.
LowerValue(v) == IF v = "TRUE" THEN "true" ELSE v

\* e.attrib.get(key, default)
AttribGet(v, default) == IF v = NoAttr THEN default ELSE v

\* 'x.lower == s': the bound method x.lower, which the code does not call,
\* compared with a string; a method object equals no string.
LowerMethodEquals(x, s) == FALSE

\* The source of an issue is a string, a sequence of tokens.
ManifestSource == <<"AndroidManifest.xml">>

\* //application[@android:usesCleartextTraffic="false"]
HasCleartextFalse(apps) == \E i \in 1 .. Len(apps) : apps[i].uct = "false"

\* The test the loop over //application makes on element e.
ApplicationRaises(e, api) ==
  /\ ~e.nsc
  /\ LowerMethodEquals(AttribGet(e.uct, IF api < 28 THEN "true" ELSE "false"),
                       "true")

\* The loop over //application: one issue at the first element that passes
\* the test, then break.
ManifestIssues(apps, api) ==
  IF api < 24
  THEN IF ~HasCleartextFalse(apps) THEN <<ManifestSource>> ELSE <<>>
  ELSE IF \E i \in 1 .. Len(apps) : ApplicationRaises(apps[i], api)
       THEN <<ManifestSource>> ELSE <<>>

\* Context.source_name_of_disassembled_resource
source_name_of_disassembled_resource(fn) == JoinSep(fn)

\* The loop over context.xml_resources(), entered for api_level >= 24 only.
RECURSIVE ResourceIssues(_, _)
ResourceIssues(res, api) ==
  IF res = <<>> \/ api < 24 THEN <<>>
  ELSE (IF /\ Head(res).nsc
           /\ IF api < 28 THEN ~Head(res).hasFalse ELSE Head(res).hasTrue
        THEN <<source_name_of_disassembled_resource(Head(res).fn)>>
        ELSE <<>>) \o ResourceIssues(Tail(res), api)

\* A package was analyzed; the detector has not run.
CleartextInit ==
  /\ xapi \in ApiLevels
  /\ xapps \in UNION { [1 .. n -> Applications] : n \in 0 .. MaxApplications }
  /\ xres \in UNION { [1 .. n -> XmlResources] : n \in 0 .. MaxResources }
  /\ xissues = <<>>
  /\ xdone = FALSE

\* ManifestCleartextPermitted.detect
DetectCleartext ==
  /\ ~xdone
  /\ xdone' = TRUE
  /\ xissues' = ManifestIssues(xapps, xapi) \o ResourceIssues(xres, xapi)
  /\ UNCHANGED <<xapi, xapps, xres, providerVars, ctxVars, treeVars,
                 workdirVars, searchVars, configVars>>

InitCleartext ==
  /\ CleartextInit /\ ProviderIdle /\ CtxIdle /\ TreeIdle /\ WorkdirIdle
  /\ SearchIdle /\ ConfigIdle

SpecCleartext == InitCleartext /\ [][DetectCleartext]_vars

\* ------------------------------------------------------------ properties
\* The step is a public call of operation op on context c.
IsCall(c, op) == callNo' = callNo + 1 /\ lastCall' = <<c, op>>

InProgress(c) == pc[c] \in {"disasm", "ingest"}

AllFacts == [d \in Dirs |-> disk[d].facts]

\* What a re-ingestion guard that fired leaves behind on context c.
GuardFired(c) ==
  /\ lastAnalyze'[c] = "ValueError"
  /\ pc'[c] = "idle"
  /\ nDisasm' = nDisasm
  /\ nParse' = nParse
  /\ AllFacts' = AllFacts
  /\ apk'[c] = apk[c]
  /\ wd'[c] = wd[c]

\* C1, as stated: on every context, an analyze call that follows another
\* analyze call fails with 'analyzed once', runs neither the disassembler nor
\* the parser, and leaves the fact stores, self.apk and self.wd as they were.
C1_EverySecondAnalyzeFails ==
  [][\A c \in Ctxs :
       (IsCall(c, "analyze") /\ lastAnalyze[c] # "none") => GuardFired(c)]_vars

\* C1, amended: the same, for an analyze call that follows an analyze call
\* which got past fingerprinting, that is, which set the work directory.
C1_SecondAnalyzeFailsOnceWorkdirSet ==
  [][\A c \in Ctxs :
       (IsCall(c, "analyze") /\ lastAnalyze[c] # "none" /\ wd[c] # NoneWd)
         => GuardFired(c)]_vars

\* C1 witness: a second analyze call was made and refused.
C1_Witness ==
  \E c \in Ctxs :
    lastCall = <<c, "analyze">> /\ lastAnalyze[c] = "ValueError" /\ wd[c] # NoneWd

\* The context skipped disassembly and ingestion: its analyze returned without
\* having started either.
Skipped(c) == lastAnalyze[c] = "ok" /\ nDisasm[c] = 0 /\ nParse[c] = 0

\* C2: when the cache directory of the package's fingerprint exists already, an
\* analyze call on a context without work directory returns at once with no
\* disassembler and no parser invocation and with self.wd that directory,
\* whatever the directory holds; a following store() returns a handle opened
\* on that directory and builds nothing.
C2_ExistingCacheDirIsReused ==
  [][\A c \in Ctxs :
       /\ ( /\ IsCall(c, "analyze")
            /\ wd[c] = NoneWd
            /\ apk'[c] \in GoodApks
            /\ disk[workdir_of(apk'[c])].exists )
          => ( /\ lastAnalyze'[c] = "ok"
               /\ pc'[c] = "idle"
               /\ nDisasm' = nDisasm
               /\ nParse' = nParse
               /\ wd'[c] = workdir_of(apk'[c])
               /\ disk' = disk )
       /\ ( /\ IsCall(c, "store")
            /\ Skipped(c)
            /\ disk[wd[c]].exists )
          => ( /\ lastStore'[c] = "handle"
               /\ handle'[c] = wd[c]
               /\ disk' = disk )]_vars

\* C2 witness: a context skipped ingestion over a directory that an earlier
\* run left incomplete, and opened the store there.
C2_Witness ==
  \E c \in Ctxs :
    /\ Skipped(c)
    /\ lastStore[c] = "handle"
    /\ handle[c] = wd[c]
    /\ disk[wd[c]] = CrashedDir(apk[c])

\* C3: while one context's disassembly or ingestion into a cache directory is
\* in progress, no other context with that directory has had analyze return
\* or has obtained a store handle for querying.
C3_NoPartialIngestionObserved ==
  \A c, d \in Ctxs :
    (c # d /\ InProgress(d) /\ wd[c] = wd[d])
      => (lastAnalyze[c] # "ok" /\ lastStore[c] # "handle")

\* C4: a failed disassembler invocation is never followed by ingestion, and
\* analyze does not return normally after it.
C4_DisassemblerFailureIsFatal ==
  \A c \in Ctxs : disasmFailed[c] => (pc[c] # "ingest" /\ lastAnalyze[c] # "ok")

\* C5: store() on a context whose latest analyze call did not complete (none
\* was made, or it raised while fingerprinting or parsing) fails and yields no
\* handle.
C5_StoreBeforeIngestionFails ==
  [][\A c \in Ctxs :
       (IsCall(c, "store") /\ lastAnalyze[c] \in {"none", "BadZipFile", "ParseError"})
         => lastStore'[c] = "AssertionError"]_vars

\* C8: disassembled_classes() and disassembled_resources() each enumerate the
\* tree at most once per context, and every call after the first has the
\* outcome of the first and does not walk the filesystem.
C8_MemoizedOnce ==
  \A c \in Ctxs, k \in Kinds :
    /\ hist[c][k].enums <= 1
    /\ hist[c][k].calls >= 2
         => (hist[c][k].last = hist[c][k].first /\ ~hist[c][k].touched)

\* C9: an enumeration (a call that finds no memoized value) on a context whose
\* cache directory does not exist fails with a filesystem error; one whose
\* directory exists and holds no matching file returns the empty result.
C9_MissingRootIsAnError ==
  [][\A c \in Ctxs, k \in Kinds :
       (IsCall(c, k) /\ ~memo[c][k].set /\ wd[c] # NoneWd)
         => IF disk[wd[c]].exists
            THEN (FilesOfKind(k, disk[wd[c]].tree) = {}
                    => hist'[c][k].last = Returned({}))
            ELSE hist'[c][k].last = Raised("OSError")]_vars

\* C6: the canonical type names of the class files of one tree are pairwise
\* different, also for files under different disassembly roots.
C6_TypeNamesAreDistinct ==
  \A f, g \in DOMAIN ttypes : f # g => ttypes[f] # ttypes[g]

Concat3(path) == Concat(SubSeq(path, Len(CacheRoot) + 1, Len(path)))

\* C7: each cache path is the cache root followed by three segments, of
\* lengths 2, 2 and the rest, whose concatenation is the fingerprint; packages
\* of equal manifest-integrity content have equal paths, and packages of
\* different fingerprints have different paths.
C7_WorkdirIsShardedFingerprint ==
  wpaths # <<>> =>
    /\ \A i \in Pkgs :
         /\ Len(wpaths[i]) = Len(CacheRoot) + 3
         /\ SubSeq(wpaths[i], 1, Len(CacheRoot)) = CacheRoot
         /\ Len(wpaths[i][Len(CacheRoot) + 1]) = 2
         /\ Len(wpaths[i][Len(CacheRoot) + 2]) = 2
         /\ Concat3(wpaths[i]) = whash[i]
    /\ \A i, j \in Pkgs :
         /\ wm[i] = wm[j] => wpaths[i] = wpaths[j]
         /\ whash[i] # whash[j] => wpaths[i] # wpaths[j]

\* C7 witness: the paths were computed for two packages of identical content
\* and a third of another fingerprint.
C7_Witness ==
  /\ wpaths # <<>>
  /\ wm[1] = wm[2] /\ wm[1] # <<>>
  /\ whash[1] # whash[3]

\* C10: whenever a command that queries the fact store has returned or
\* raised, every query resource acquired during it was released, exactly
\* once, and none is still held.
C10_QueryResourceReleased ==
  (spc = "done" /\ QueriesStore(scmd)) => (srel = sacq /\ sacq <= 1 /\ ~sopen)

\* C11: a command given an invalid regular expression as its pattern ends in
\* a pattern-syntax error and outputs no result line first, whatever the
\* analyzed package holds, a package without any class included.
C11_InvalidPatternAlwaysFails ==
  /\ (spc # "idle" /\ ~svalid) => sout = 0
  /\ (spc = "done" /\ ~svalid) => soutcome = "PatternError"

\* The commands the claim lists as having a required argument.
RequiredArgCmds == {"/c", "/k", "/dc", "/dcx", "/dci", "/dm"}

C13_FailedCallLeavesNoMemo ==
  [][\A c \in Ctxs, k \in Kinds :
       IsCall(c, k) =>
         /\ hist'[c][k].last.exc # "" => ~memo'[c][k].set
         /\ (lastAnalyze[c] = "ok" /\ hist[c][k].enums = 0)
              => hist'[c][k].last = Returned(Enumerate(k, wd[c], disk))]_vars

\* The key and the value of a text 'k=v': what stands before its first '='
\* and what stands after it.
KeyOf(val) == SubSeq(val, 1, FirstEq(val) - 1)
ValueOf(val) == SubSeq(val, FirstEq(val) + 1, Len(val))

\* C14: a begin for k=v, k a known key that is not bound, leaves config[k]
\* equal to v; and the matching end, the end with the text of the begin that
\* bound k, restores config[k] to the value it had right before that begin and
\* takes k out of the stash, whatever ran in between.
C14_BeginBindsEndRestores ==
  [][/\ (/\ clast'.ev = "begin"
         /\ HasEq(clast'.val)
         /\ KeyOf(clast'.val) \in KnownKeys
         /\ KeyOf(clast'.val) \notin DOMAIN cstash)
        => /\ clast'.exc = ""
           /\ cconf'[KeyOf(clast'.val)] = ValueOf(clast'.val)
     /\ \A k \in DOMAIN cstash :
          (clast'.ev = "end" /\ clast'.val = cbind[k].text)
            => /\ cconf'[k] = cbind[k].before
               /\ k \notin DOMAIN cstash']_vars

\* The reasons for which the claim has a begin fail.
BeginFailures == {"already bound", "unknown key", "need a value"}

\* C15: a begin that fails because its key is already bound, is unknown, or
\* its text has no '=', leaves the configuration and the stash as they were;
\* and a stash entry for k always holds the value config[k] had before the
\* outermost successful begin for k.
C15_FailedBeginChangesNothing ==
  /\ [][(clast'.ev = "begin" /\ clast'.exc \in BeginFailures)
          => (cconf' = cconf /\ cstash' = cstash)]_vars
  /\ [](\A k \in DOMAIN cstash : cstash[k] = couter[k])

C15_Witness ==
  /\ clast.ev = "begin"
  /\ clast.exc = "already bound"
  /\ \E k \in DOMAIN cstash : cconf[k] # cstash[k]

\* The issues raised for the provider named name.
IssuesFor(name) == SelectSeq(pissues, LAMBDA i : i.info1 = name)

\* The action names of the providers named name that do not look public.
OwnPrivateActions(name) ==
  SelectSeq(ActionsOf(pman, "provider", name), LAMBDA a : ~looks_public(a))

\* C16: the detector raises exactly one issue for each name of an exported
\* provider and none for another name; the issue is the 'private action
\* names' variant exactly when the provider's own intent-filter actions
\* include one that does not look public, and then info2 lists exactly those;
\* the actions of a receiver or an activity of that name have no part in it.
C16_ProviderIssueFollowsOwnActions ==
  pdone =>
    \A name \in {"P", "Q"} :
      IF name \in ExportedProviderNames(pman)
      THEN /\ Len(IssuesFor(name)) = 1
           /\ IssuesFor(name)[1].info2 = OwnPrivateActions(name)
           /\ IssuesFor(name)[1].summary
                = IF OwnPrivateActions(name) = <<>>
                  THEN "manipulatable ContentProvider"
                  ELSE "manipulatable ContentProvider with private action names"
      ELSE IssuesFor(name) = <<>>

\* The effective usesCleartextTraffic of an <application> element: its
\* attribute in lower case, and when absent true below SDK 28, false from it.
EffectiveCleartext(e, api) ==
  LowerValue(IF e.uct = NoAttr THEN (IF api < 28 THEN "true" ELSE "false")
             ELSE e.uct) = "true"

\* The issues raised with the manifest as their source.
ManifestSourced == SelectSeq(xissues, LAMBDA src : src = ManifestSource)

\* C17: for a minimum SDK of 24 or more the detector raises the issue with
\* source AndroidManifest.xml exactly once when some <application> has no
\* networkSecurityConfig and an effective usesCleartextTraffic of true, and
\* raises no issue with that source otherwise.
C17_CleartextRaisedOnce ==
  (xdone /\ xapi >= 24) =>
    Len(ManifestSourced)
      = IF \E i \in 1 .. Len(xapps) :
             ~xapps[i].nsc /\ EffectiveCleartext(xapps[i], xapi)
        THEN 1 ELSE 0

====
